---- MODULE Spec2Model ----
(***************************************************************************)
(* The job completion polling of the two notebooks.                        *)
(*                                                                         *)
(*   lab_01/extract_analyze_a_movie.py  : the inline `while` loop that     *)
(*       calls get_data_automation_status and sleeps 5 seconds, followed   *)
(*       by the cells that read the result documents.                      *)
(*   lab_02/video-blueprint-with-osod.py: the call of                      *)
(*       bda_utils.wait_for_completion(...), the status check that follows *)
(*       it and the cells that read the result documents.                  *)
(*       wait_for_completion itself lives in bda_object_detection_utils,   *)
(*       which is not part of the sources at hand: it is modelled from     *)
(*       section 4.1 of the specification (the definitions named Wfc...).  *)
(*                                                                         *)
(* The remote service is an input: `script` is the sequence of status      *)
(* codes the job reports to successive queries (the last code is repeated  *)
(* for ever, a job does not leave a terminal status) and `faultAt` is the  *)
(* number of the query on which the transport fails (0: never).            *)
(***************************************************************************)
EXTENDS Integers, Naturals, Sequences, FiniteSets, TLC

VARIABLES lab, script, faultAt, max_iterations, delay,
          pc, status, status_response, queries, sleeps,
          result, output_config, readArgs, raised,
          cancelAt, bucketExists, blueprintOk,
          ops, video_project_arn, blueprint_arn, invocation_arn,
          handles, printed

vars == <<lab, script, faultAt, max_iterations, delay,
          pc, status, status_response, queries, sleeps,
          result, output_config, readArgs, raised,
          cancelAt, bucketExists, blueprintOk,
          ops, video_project_arn, blueprint_arn, invocation_arn,
          handles, printed>>

\* the inputs of a run: the service's answers, the parameters of the poll,
\* the sleep in which the run is cancelled (0: never), whether the workshop
\* bucket exists and whether create_blueprint succeeds
env == <<lab, script, faultAt, max_iterations, delay,
         cancelAt, bucketExists, blueprintOk>>

\* the resources of the run: the log of the remote calls other than status
\* queries, and the identifiers the notebook holds
res == <<ops, video_project_arn, blueprint_arn, invocation_arn>>

(***************************************************************************)
(* Bounds of the model.                                                    *)
(***************************************************************************)
\* longest run of pending codes a job reports before its final code
MaxPending == 2
\* largest small iteration budget tried besides the notebook's own 40
MaxIter == 3
\* latest query on which a transport fault is injected
MaxFault == 3
\* latest sleep in which a cancellation is signalled
MaxCancel == 2

\* lab_01 counts its queries without limit; the model counts up to QueryCap
\* and lets the counter stay there (QueryCap stands for "QueryCap or more")
QueryCap == MaxIter + 2

(***************************************************************************)
(* Program constants.                                                      *)
(***************************************************************************)
\* time.sleep(5) of lab_01
Lab1Delay == 5
\* max_iterations=40 and delay=10 of lab_02's wait_for_completion call
Lab2MaxIterations == 40
Lab2Delay == 10

\* completion_states / error_states of lab_02, and lab_01's terminal list
completion_states == {"Success"}
error_states == {"ClientError", "ServiceError"}
Lab1TerminalStates == {"Success", "ServiceError", "ClientError"}

(***************************************************************************)
(* The remote service.                                                     *)
(***************************************************************************)
\* codes that are in neither set: a known one, one the notebooks never
\* heard of, and "None" for a response without a status field
PendingCodes == {"InProgress", "Created", "None"}
StatusCodes == PendingCodes \cup completion_states \cup error_states

RECURSIVE SeqsUpTo(_, _)
SeqsUpTo(S, n) ==
    IF n = 0 THEN {<<>>}
    ELSE LET shorter == SeqsUpTo(S, n - 1)
         IN  shorter \cup {Append(s, x) : s \in shorter, x \in S}

\* a job reports pending codes and then its final code for ever
Scripts == {Append(p, f) : p \in SeqsUpTo(PendingCodes, MaxPending), f \in StatusCodes}

Min(a, b) == IF a < b THEN a ELSE b

\* locations and messages, tagged with the number of the response they came in
None == <<"None", 0>>
Undefined == <<"Undefined", 0>>
S3Uri(i) == <<"s3Uri", i>>
ErrorMessage(i) == <<"error_message", i>>

\* the identifiers the service hands out, and the key of the uploaded video
ProjectArn == <<"projectArn", 1>>
BlueprintArn == <<"blueprintArn", 1>>
InvocationArn == <<"invocationArn", 1>>
VideoKey == <<"s3_key", 1>>

\* a remote call other than a status query: its name, its argument and
\* whether the service carried it out
Op(name, arg, ok) == [op |-> name, arg |-> arg, ok |-> ok]

\* nothing printed yet
NoPrint == [status |-> "None", error_message |-> None]

NoResponse == [pos |-> 0, status |-> "None", s3Uri |-> None, error_message |-> None]

\* the status code the job reports to query number i
StatusAt(i) == script[Min(i, Len(script))]

\* the response of get_data_automation_status to query number i: the output
\* location is present only on success, the error message only on failure
get_data_automation_status(i) ==
    [pos           |-> i,
     status        |-> StatusAt(i),
     s3Uri         |-> IF StatusAt(i) \in completion_states THEN S3Uri(i) ELSE None,
     error_message |-> IF StatusAt(i) \in error_states THEN ErrorMessage(i) ELSE None]

\* query number i fails in transport instead of returning a response
TransportFails(i) == faultAt # 0 /\ i = faultAt

\* lab_01's count of queries and sleeps saturates at QueryCap
Saturate(n) == Min(n, QueryCap)

(***************************************************************************)
(* lab_01: the inline polling loop and the result cells.                   *)
(***************************************************************************)
\* variants of the loop test: one that does not stop on Success, one that
\* does not stop on ServiceError, one that takes an unknown code for terminal
LoopCondition_NoSuccess(s) == s \notin {"ServiceError", "ClientError"}
LoopCondition_NoServiceError(s) == s \notin {"Success", "ClientError"}
LoopCondition_OnlyInProgress(s) == s \in {"InProgress", "None"}
\* and one that is left before the first query
LoopCondition_TestsResponse(s) == s \in {"InProgress", "Created"}

\* while status not in ["Success","ServiceError","ClientError"]
LoopCondition(s) == s \notin Lab1TerminalStates

\* status_response.get("outputConfiguration",{}).get("s3Uri")
OutputConfig(resp) == resp.s3Uri

\* get_data_automation_status(invocationArn=invocation_arn)
QueryHandle_Other == <<"invocationArn", 2>>

QueryHandle == invocation_arn

\* variant of the bucket check that prints the error and goes on
Lab1HeadBucket_Swallow ==
    /\ lab = "lab_01" /\ pc = "head_bucket"
    /\ ops' = Append(ops, Op("head_bucket", None, bucketExists))
    /\ pc' = "create_project"
    /\ UNCHANGED <<env, status, status_response, queries, sleeps, result,
                   output_config, readArgs, raised, video_project_arn,
                   blueprint_arn, invocation_arn, handles, printed>>

\* try: s3_client.head_bucket(Bucket=data_bucket) except: print(...); raise
Lab1HeadBucket ==
    /\ lab = "lab_01" /\ pc = "head_bucket"
    /\ ops' = Append(ops, Op("head_bucket", None, bucketExists))
    /\ IF bucketExists
       THEN pc' = "create_project" /\ UNCHANGED raised
       ELSE pc' = "aborted" /\ raised' = "BucketError"
    /\ UNCHANGED <<env, status, status_response, queries, sleeps, result,
                   output_config, readArgs, video_project_arn,
                   blueprint_arn, invocation_arn, handles, printed>>

\* response = bda_client.create_data_automation_project(...)
\* video_project_arn = response.get("projectArn")
Lab1CreateProject ==
    /\ lab = "lab_01" /\ pc = "create_project"
    /\ ops' = Append(ops, Op("create_project", None, TRUE))
    /\ video_project_arn' = ProjectArn
    /\ pc' = "upload"
    /\ UNCHANGED <<env, status, status_response, queries, sleeps, result,
                   output_config, readArgs, raised,
                   blueprint_arn, invocation_arn, handles, printed>>

\* s3_client.upload_file(sample_video_movie, data_bucket, s3_key)
Lab1Upload ==
    /\ lab = "lab_01" /\ pc = "upload"
    /\ ops' = Append(ops, Op("upload_file", VideoKey, TRUE))
    /\ pc' = "invoke"
    /\ UNCHANGED <<env, status, status_response, queries, sleeps, result,
                   output_config, readArgs, raised, video_project_arn,
                   blueprint_arn, invocation_arn, handles, printed>>

\* response = bda_runtime_client.invoke_data_automation_async(...)
\* invocation_arn = response.get("invocationArn")
Lab1Invoke ==
    /\ lab = "lab_01" /\ pc = "invoke"
    /\ ops' = Append(ops, Op("invoke_data_automation_async", video_project_arn, TRUE))
    /\ invocation_arn' = InvocationArn
    /\ pc' = "start"
    /\ UNCHANGED <<env, status, status_response, queries, sleeps, result,
                   output_config, readArgs, raised, video_project_arn,
                   blueprint_arn, handles, printed>>

\* status, status_response = None, None
Lab1Assign ==
    /\ lab = "lab_01" /\ pc = "start"
    /\ status' = "None"
    /\ status_response' = NoResponse
    /\ pc' = "while"
    /\ UNCHANGED <<env, res, handles, printed, queries, sleeps, result, output_config, readArgs, raised>>

\* the test of the while loop
Lab1While ==
    /\ lab = "lab_01" /\ pc = "while"
    /\ pc' = IF LoopCondition(status) THEN "query" ELSE "output_config"
    /\ UNCHANGED <<env, res, handles, printed, status, status_response, queries, sleeps, result,
                   output_config, readArgs, raised>>

\* status_response = get_data_automation_status(...); status = ....get("status")
\* print(f"... BDA video task: {status}")
\* an exception of the call is not caught: it ends the cell and the run
Lab1Query ==
    /\ lab = "lab_01" /\ pc = "query"
    /\ queries' = Saturate(queries + 1)
    /\ handles' = handles \cup {QueryHandle}
    /\ IF TransportFails(Saturate(queries + 1))
       THEN /\ raised' = "TransportError"
            /\ pc' = "aborted"
            /\ UNCHANGED <<status, status_response, printed>>
       ELSE /\ status_response' = get_data_automation_status(Saturate(queries + 1))
            /\ status' = get_data_automation_status(Saturate(queries + 1)).status
            /\ printed' = [status |-> status', error_message |-> None]
            /\ pc' = "sleep"
            /\ UNCHANGED raised
    /\ UNCHANGED <<env, res, sleeps, result, output_config, readArgs>>

\* the run is cancelled during sleep number n
Cancelled(n) == cancelAt # 0 /\ n = cancelAt

\* variant of the sleep that submits the job again before waiting
Lab1Sleep_Resubmit ==
    /\ lab = "lab_01" /\ pc = "sleep"
    /\ sleeps' = Saturate(sleeps + 1)
    /\ ops' = IF Len(ops) < 6
              THEN Append(ops, Op("invoke_data_automation_async", video_project_arn, TRUE))
              ELSE ops
    /\ pc' = "while"
    /\ UNCHANGED <<env, video_project_arn, blueprint_arn, invocation_arn, handles,
                   printed, status, status_response, queries, result,
                   output_config, readArgs, raised>>

\* time.sleep(5), at the end of every iteration; an interrupt of the kernel
\* during the sleep raises KeyboardInterrupt out of the loop
Lab1Sleep ==
    /\ lab = "lab_01" /\ pc = "sleep"
    /\ sleeps' = Saturate(sleeps + 1)
    /\ IF Cancelled(Saturate(sleeps + 1))
       THEN pc' = "aborted" /\ raised' = "KeyboardInterrupt"
       ELSE pc' = "while" /\ UNCHANGED raised
    /\ UNCHANGED <<env, res, handles, printed, status, status_response, queries, result,
                   output_config, readArgs>>

\* output_config = status_response.get("outputConfiguration",{}).get("s3Uri")
Lab1OutputConfig ==
    /\ lab = "lab_01" /\ pc = "output_config"
    /\ output_config' = OutputConfig(status_response)
    /\ pc' = "read_config"
    /\ UNCHANGED <<env, res, handles, printed, status, status_response, queries, sleeps, result,
                   readArgs, raised>>

\* config_data = utils.read_json_on_s3(output_config, s3_client)
\* the call is made whatever the status was; without a location it fails
Lab1ReadConfig ==
    /\ lab = "lab_01" /\ pc = "read_config"
    /\ readArgs' = Append(readArgs, output_config)
    /\ IF output_config[1] = "s3Uri"
       THEN pc' = "read_result" /\ UNCHANGED raised
       ELSE pc' = "aborted" /\ raised' = "ReadError"
    /\ UNCHANGED <<env, res, handles, printed, status, status_response, queries, sleeps, result,
                   output_config>>

\* result_uri = config_data[...]; result_data = utils.read_json_on_s3(result_uri, ...)
Lab1ReadResult ==
    /\ lab = "lab_01" /\ pc = "read_result"
    /\ readArgs' = Append(readArgs, <<"result_uri", output_config[2]>>)
    /\ pc' = "delete_project"
    /\ UNCHANGED <<env, res, handles, printed, status, status_response, queries, sleeps, result,
                   output_config, raised>>

\* variant of the result folder that is not the folder of the job
ResultFolder_Prefix(uri) == <<"folder", 0>>

\* urlparse(output_config.replace("job_metadata.json","")).path.lstrip("/")
ResultFolder(uri) == <<"folder", uri[2]>>

\* bda_client.delete_data_automation_project(projectArn=video_project_arn)
Lab1DeleteProject ==
    /\ lab = "lab_01" /\ pc = "delete_project"
    /\ ops' = Append(ops, Op("delete_project", video_project_arn, TRUE))
    /\ pc' = "delete_object"
    /\ UNCHANGED <<env, status, status_response, queries, sleeps, result,
                   output_config, readArgs, raised, video_project_arn,
                   blueprint_arn, invocation_arn, handles, printed>>

\* s3_client.delete_object(Bucket=data_bucket, Key=s3_key)
Lab1DeleteObject ==
    /\ lab = "lab_01" /\ pc = "delete_object"
    /\ ops' = Append(ops, Op("delete_object", VideoKey, TRUE))
    /\ pc' = "delete_folder"
    /\ UNCHANGED <<env, status, status_response, queries, sleeps, result,
                   output_config, readArgs, raised, video_project_arn,
                   blueprint_arn, invocation_arn, handles, printed>>

\* utils.delete_s3_folder(data_bucket, <folder of output_config>, s3_client)
\* : output_config.replace fails when output_config is None
Lab1DeleteFolder ==
    /\ lab = "lab_01" /\ pc = "delete_folder"
    /\ IF output_config[1] = "s3Uri"
       THEN /\ ops' = Append(ops, Op("delete_s3_folder", ResultFolder(output_config), TRUE))
            /\ pc' = "done"
            /\ UNCHANGED raised
       ELSE /\ pc' = "aborted"
            /\ raised' = "AttributeError"
            /\ UNCHANGED ops
    /\ UNCHANGED <<env, status, status_response, queries, sleeps, result,
                   output_config, readArgs, video_project_arn,
                   blueprint_arn, invocation_arn, handles, printed>>

(***************************************************************************)
(* lab_02: wait_for_completion (from section 4.1 of the specification),    *)
(* its call, the status check and the result cells.                        *)
(***************************************************************************)
NoResult == [kind |-> "None", status |-> "None", s3Uri |-> None, error_message |-> None]

\* variant of the parameter check that forgets the delay
WfcValidConfiguration_NoDelay(m, d) == m # 0

\* a max_iterations of zero or a non-positive delay is a configuration error
WfcValidConfiguration(m, d) == m # 0 /\ d > 0

\* the classification of a status code into {pending, success, failure}
WfcClassify(s) ==
    IF s \in completion_states THEN "success"
    ELSE IF s \in error_states THEN "failure"
    ELSE "pending"

\* the PollResult variants
WfcSuccess(resp) ==
    [kind |-> "Success", status |-> resp.status, s3Uri |-> resp.s3Uri, error_message |-> None]
WfcFailure(resp) ==
    [kind |-> "Failure", status |-> resp.status, s3Uri |-> None,
     error_message |-> resp.error_message]
WfcTransportFailure(i) ==
    [kind |-> "Failure", status |-> "TransportError", s3Uri |-> None,
     error_message |-> ErrorMessage(i)]
WfcTimeout(resp) ==
    [kind |-> "Timeout", status |-> resp.status, s3Uri |-> None, error_message |-> None]

\* the iteration count has reached max_iterations
WfcBudgetExhausted(n, m) == n >= m

\* s3_uri = bda_utils.upload_to_s3(sample_video, s3_key)
Lab2Upload ==
    /\ lab = "lab_02" /\ pc = "upload"
    /\ ops' = Append(ops, Op("upload_file", VideoKey, TRUE))
    /\ pc' = "create_blueprint"
    /\ UNCHANGED <<env, status, status_response, queries, sleeps, result,
                   output_config, readArgs, raised, video_project_arn,
                   blueprint_arn, invocation_arn, handles, printed>>

\* variant of the blueprint cell that lets the exception end the run
Lab2CreateBlueprint_Raise ==
    /\ lab = "lab_02" /\ pc = "create_blueprint"
    /\ ops' = Append(ops, Op("create_blueprint", None, blueprintOk))
    /\ IF blueprintOk
       THEN blueprint_arn' = BlueprintArn /\ pc' = "create_project" /\ UNCHANGED raised
       ELSE raised' = "BlueprintError" /\ pc' = "aborted" /\ UNCHANGED blueprint_arn
    /\ UNCHANGED <<env, status, status_response, queries, sleeps, result,
                   output_config, readArgs, video_project_arn,
                   invocation_arn, handles, printed>>

\* try: bp_response = create_blueprint(...); blueprint_arn = ...blueprintArn
\* except Exception as e: print(...); blueprint_arn = None
Lab2CreateBlueprint ==
    /\ lab = "lab_02" /\ pc = "create_blueprint"
    /\ ops' = Append(ops, Op("create_blueprint", None, blueprintOk))
    /\ blueprint_arn' = IF blueprintOk THEN BlueprintArn ELSE None
    /\ pc' = "create_project"
    /\ UNCHANGED <<env, status, status_response, queries, sleeps, result,
                   output_config, readArgs, raised, video_project_arn,
                   invocation_arn, handles, printed>>

\* response = create_data_automation_project(..., blueprints=[{'blueprintArn':
\* blueprint_arn, ...}]); video_project_arn = response.get("projectArn")
\* : the call is made with whatever blueprint_arn holds; a request without
\* an ARN is rejected and the exception ends the run
Lab2CreateProject ==
    /\ lab = "lab_02" /\ pc = "create_project"
    /\ ops' = Append(ops, Op("create_project", blueprint_arn, blueprint_arn # None))
    /\ IF blueprint_arn # None
       THEN video_project_arn' = ProjectArn /\ pc' = "invoke" /\ UNCHANGED raised
       ELSE raised' = "ParamValidationError" /\ pc' = "aborted"
            /\ UNCHANGED video_project_arn
    /\ UNCHANGED <<env, status, status_response, queries, sleeps, result,
                   output_config, readArgs,
                   blueprint_arn, invocation_arn, handles, printed>>

\* response = invoke_data_automation_async(...)
\* invocation_arn = response.get("invocationArn")
Lab2Invoke ==
    /\ lab = "lab_02" /\ pc = "invoke"
    /\ ops' = Append(ops, Op("invoke_data_automation_async", video_project_arn, TRUE))
    /\ invocation_arn' = InvocationArn
    /\ pc' = "start"
    /\ UNCHANGED <<env, status, status_response, queries, sleeps, result,
                   output_config, readArgs, raised, video_project_arn,
                   blueprint_arn, handles, printed>>

\* status_response = bda_utils.wait_for_completion(..., max_iterations=.., delay=..)
\* : the call enters the poller with the keyword arguments
Lab2Call ==
    /\ lab = "lab_02" /\ pc = "start"
    /\ pc' = "wfc_enter"
    /\ UNCHANGED <<env, res, handles, printed, status, status_response, queries, sleeps, result,
                   output_config, readArgs, raised>>

\* the parameters are checked before the loop starts
WfcEnter ==
    /\ lab = "lab_02" /\ pc = "wfc_enter"
    /\ IF WfcValidConfiguration(max_iterations, delay)
       THEN pc' = "wfc_query" /\ UNCHANGED raised
       ELSE pc' = "aborted" /\ raised' = "ConfigurationError"
    /\ UNCHANGED <<env, res, handles, printed, status, status_response, queries, sleeps, result,
                   output_config, readArgs>>

\* one iteration: issue the status query and inspect the returned code
WfcQuery ==
    /\ lab = "lab_02" /\ pc = "wfc_query"
    /\ queries' = queries + 1
    /\ handles' = handles \cup {QueryHandle}
    /\ IF TransportFails(queries + 1)
       THEN /\ result' = WfcTransportFailure(queries + 1)
            /\ pc' = "wfc_return"
            /\ UNCHANGED status
       ELSE LET resp == get_data_automation_status(queries + 1)
                class == WfcClassify(resp.status)
            IN  /\ status' = resp.status
                /\ IF class = "success"
                   THEN result' = WfcSuccess(resp) /\ pc' = "wfc_return"
                   ELSE IF class = "failure"
                   THEN result' = WfcFailure(resp) /\ pc' = "wfc_return"
                   ELSE IF WfcBudgetExhausted(queries + 1, max_iterations)
                   THEN result' = WfcTimeout(resp) /\ pc' = "wfc_return"
                   ELSE pc' = "wfc_sleep" /\ UNCHANGED result
    /\ UNCHANGED <<env, res, printed, status_response, sleeps, output_config, readArgs, raised>>

\* the outcome of a poll cancelled at the sleep boundary (section 5)
WfcCancelled(s) ==
    [kind |-> "Cancelled", status |-> s, s3Uri |-> None, error_message |-> None]

\* wait `delay` and continue; a cancellation signalled during the wait
\* aborts the loop and is returned as a value
WfcSleep ==
    /\ lab = "lab_02" /\ pc = "wfc_sleep"
    /\ sleeps' = sleeps + 1
    /\ IF Cancelled(sleeps + 1)
       THEN result' = WfcCancelled(status) /\ pc' = "wfc_return"
       ELSE pc' = "wfc_query" /\ UNCHANGED result
    /\ UNCHANGED <<env, res, handles, printed, status, status_response, queries,
                   output_config, readArgs, raised>>

\* status_response = <the value wait_for_completion returned>
Lab2Return ==
    /\ lab = "lab_02" /\ pc = "wfc_return"
    /\ status_response' = [pos |-> queries, status |-> result.status,
                           s3Uri |-> result.s3Uri,
                           error_message |-> result.error_message]
    /\ pc' = "check"
    /\ UNCHANGED <<env, res, handles, printed, status, queries, sleeps, result, output_config,
                   readArgs, raised>>

\* variant of the failure report that prints a fixed text
FailureReport_Generic(resp) == [status |-> "Failed", error_message |-> None]

\* print(f"... failed with status: {status_response['status']}")
\* if 'error_message' in status_response: print(f"Error message: ...")
FailureReport(resp) == [status |-> resp.status, error_message |-> resp.error_message]

\* if status_response['status'] == 'Success': output_config_uri = ...
\* else: only prints; output_config_uri stays an unbound name
Lab2Check ==
    /\ lab = "lab_02" /\ pc = "check"
    /\ IF status_response.status = "Success"
       THEN output_config' = OutputConfig(status_response) /\ UNCHANGED printed
       ELSE printed' = FailureReport(status_response) /\ UNCHANGED output_config
    /\ pc' = "read_config"
    /\ UNCHANGED <<env, res, handles, status, status_response, queries, sleeps, result,
                   readArgs, raised>>

\* config_data = bda_utils.read_json_from_s3(output_config_uri)
\* : the next cell runs whatever the status was
Lab2ReadConfig ==
    /\ lab = "lab_02" /\ pc = "read_config"
    /\ readArgs' = Append(readArgs, output_config)
    /\ IF output_config[1] = "s3Uri"
       THEN pc' = "read_result" /\ UNCHANGED raised
       ELSE /\ pc' = "aborted"
            /\ raised' = IF output_config = Undefined THEN "NameError" ELSE "ReadError"
    /\ UNCHANGED <<env, res, handles, printed, status, status_response, queries, sleeps, result,
                   output_config>>

\* custom_output_path = config_data[...]; result_data = read_json_from_s3(...)
Lab2ReadResult ==
    /\ lab = "lab_02" /\ pc = "read_result"
    /\ readArgs' = Append(readArgs, <<"custom_output_path", output_config[2]>>)
    /\ pc' = "delete_project"
    /\ UNCHANGED <<env, res, handles, printed, status, status_response, queries, sleeps, result,
                   output_config, raised>>

\* bda_client.delete_data_automation_project(projectArn=video_project_arn)
Lab2DeleteProject ==
    /\ lab = "lab_02" /\ pc = "delete_project"
    /\ ops' = Append(ops, Op("delete_project", video_project_arn, TRUE))
    /\ pc' = "delete_blueprint"
    /\ UNCHANGED <<env, status, status_response, queries, sleeps, result,
                   output_config, readArgs, raised, video_project_arn,
                   blueprint_arn, invocation_arn, handles, printed>>

\* bda_client.delete_blueprint(blueprintArn=blueprint_arn)
Lab2DeleteBlueprint ==
    /\ lab = "lab_02" /\ pc = "delete_blueprint"
    /\ ops' = Append(ops, Op("delete_blueprint", blueprint_arn, TRUE))
    /\ pc' = "delete_object"
    /\ UNCHANGED <<env, status, status_response, queries, sleeps, result,
                   output_config, readArgs, raised, video_project_arn,
                   blueprint_arn, invocation_arn, handles, printed>>

\* bda_utils.s3_client.delete_object(Bucket=bucket, Key=s3_key)
Lab2DeleteObject ==
    /\ lab = "lab_02" /\ pc = "delete_object"
    /\ ops' = Append(ops, Op("delete_object", VideoKey, TRUE))
    /\ pc' = "delete_folder"
    /\ UNCHANGED <<env, status, status_response, queries, sleeps, result,
                   output_config, readArgs, raised, video_project_arn,
                   blueprint_arn, invocation_arn, handles, printed>>

\* bda_utils.delete_s3_folder(<folder of output_config_uri>)
Lab2DeleteFolder ==
    /\ lab = "lab_02" /\ pc = "delete_folder"
    /\ IF output_config[1] = "s3Uri"
       THEN /\ ops' = Append(ops, Op("delete_s3_folder", ResultFolder(output_config), TRUE))
            /\ pc' = "done"
            /\ UNCHANGED raised
       ELSE /\ pc' = "aborted"
            /\ raised' = "NameError"
            /\ UNCHANGED ops
    /\ UNCHANGED <<env, status, status_response, queries, sleeps, result,
                   output_config, readArgs, video_project_arn,
                   blueprint_arn, invocation_arn, handles, printed>>

(***************************************************************************)
(* The specification.                                                      *)
(***************************************************************************)
\* the budgets and delays a poll is invoked with
MaxIterationsSet == (0 .. MaxIter) \cup {Lab2MaxIterations}
DelaySet == {0 - 1, 0, Lab2Delay}

InitRun ==
    /\ lab \in {"lab_01", "lab_02"}
    /\ script \in Scripts
    /\ faultAt \in 0 .. MaxFault
    \* lab_01's loop has neither parameter: its delay is the literal 5 and
    \* max_iterations is only the budget the contract is read with
    /\ IF lab = "lab_01"
       THEN max_iterations \in 1 .. MaxIter /\ delay = Lab1Delay
       ELSE max_iterations \in MaxIterationsSet /\ delay \in DelaySet
    \* lab_01 checks the bucket first, lab_02 creates a blueprint
    /\ IF lab = "lab_01"
       THEN bucketExists \in BOOLEAN /\ blueprintOk = TRUE
       ELSE bucketExists = TRUE /\ blueprintOk \in BOOLEAN
    /\ pc = IF lab = "lab_01" THEN "head_bucket" ELSE "upload"
    /\ ops = <<>>
    /\ video_project_arn = Undefined
    /\ blueprint_arn = Undefined
    /\ invocation_arn = Undefined
    /\ handles = {}
    /\ printed = NoPrint
    /\ status = "None"
    /\ status_response = NoResponse
    /\ queries = 0
    /\ sleeps = 0
    /\ result = NoResult
    /\ output_config = Undefined
    /\ readArgs = <<>>
    /\ raised = "None"

\* a run that nobody cancels
Init == InitRun /\ cancelAt = 0

\* a run that is cancelled during one of its first sleeps, if it gets there
InitCancel == InitRun /\ cancelAt \in 1 .. MaxCancel

Next ==
    \/ Lab1HeadBucket
    \/ Lab1CreateProject
    \/ Lab1Upload
    \/ Lab1Invoke
    \/ Lab1DeleteProject
    \/ Lab1DeleteObject
    \/ Lab1DeleteFolder
    \/ Lab2Upload
    \/ Lab2CreateBlueprint
    \/ Lab2CreateProject
    \/ Lab2Invoke
    \/ Lab2DeleteProject
    \/ Lab2DeleteBlueprint
    \/ Lab2DeleteObject
    \/ Lab2DeleteFolder
    \/ Lab1Assign
    \/ Lab1While
    \/ Lab1Query
    \/ Lab1Sleep
    \/ Lab1OutputConfig
    \/ Lab1ReadConfig
    \/ Lab1ReadResult
    \/ Lab2Call
    \/ WfcEnter
    \/ WfcQuery
    \/ WfcSleep
    \/ Lab2Return
    \/ Lab2Check
    \/ Lab2ReadConfig
    \/ Lab2ReadResult

Spec == Init /\ [][Next]_vars

\* the runs in which a cancellation is signalled
CancelSpec == InitCancel /\ [][Next]_vars

\* the notebook runs its cells one after the other: a step that can be taken
\* is eventually taken
FairSpec == Spec /\ WF_vars(Next)

TypeOK ==
    /\ lab \in {"lab_01", "lab_02"}
    /\ script \in Scripts
    /\ queries \in 0 .. Lab2MaxIterations
    /\ sleeps \in 0 .. Lab2MaxIterations
    /\ status \in StatusCodes
    /\ raised \in {"None", "TransportError", "ConfigurationError", "NameError", "ReadError",
                   "KeyboardInterrupt", "BucketError", "ParamValidationError",
                   "AttributeError"}

(***************************************************************************)
(* Vocabulary of the properties.                                           *)
(***************************************************************************)
\* the position of the job's final code, and that code
K == Len(script)
Final == script[K]

\* no transport fault on the first n queries
NoFaultUpTo(n) == faultAt = 0 \/ faultAt > n

\* the poll was invoked with parameters the contract accepts
Configured == lab = "lab_01" \/ WfcValidConfiguration(max_iterations, delay)

\* the run gets as far as the poll: the cells before it do not fail
PollReached == bucketExists /\ blueprintOk

\* the poll is over: the loop was left, the poller returned or raised
\* (a run that has not reached the poll, or never will, has not ended one)
SetupAborted == raised \in {"BucketError", "ParamValidationError"}
Polling ==
    \/ pc \in {"head_bucket", "create_blueprint", "create_project", "upload", "invoke"}
    \/ pc \in {"start", "while", "query", "sleep", "wfc_enter", "wfc_query", "wfc_sleep"}
    \/ SetupAborted
PollEnded == ~Polling

\* the caller holds what the poll delivered
Delivered == pc \in {"check", "read_config", "read_result", "delete_project",
                    "delete_blueprint", "delete_object", "delete_folder", "done"}

\* how the poll ended.  lab_02: the variant of the PollResult returned.
\* lab_01: the loop has no result value, its outcome is the status it was
\* left with, or the exception that escaped it
Outcome ==
    IF Polling THEN "None"
    ELSE IF lab = "lab_02"
    THEN (IF raised = "ConfigurationError" THEN "ConfigurationError" ELSE result.kind)
    ELSE IF raised = "TransportError" THEN "Raised"
    ELSE IF status \in completion_states THEN "Success"
    ELSE IF status \in error_states THEN "Failure"
    ELSE "None"

\* the output location the poll handed to the caller
CarriedLocation == IF lab = "lab_02" THEN result.s3Uri ELSE output_config

(***************************************************************************)
(* C1 (as claimed): when no terminal code appears within the first         *)
(* max_iterations queries, the poller stops after exactly max_iterations   *)
(* queries and max_iterations - 1 sleeps and returns Timeout carrying the  *)
(* last observed status.                                                   *)
(***************************************************************************)
C1_TimeoutAfterBudget ==
    ( /\ Configured
      /\ (K > max_iterations \/ Final \in PendingCodes)
      /\ NoFaultUpTo(max_iterations)
      /\ queries >= max_iterations )
    => /\ PollEnded
       /\ Outcome = "Timeout"
       /\ queries = max_iterations
       /\ sleeps = max_iterations - 1
       /\ result.status = StatusAt(max_iterations)

(***************************************************************************)
(* C2: when the first success code is at position k <= max_iterations, the *)
(* poller never issues more than k queries, and once it has ended it has   *)
(* issued exactly k queries and delivers Success with the output location  *)
(* of the k-th response.                                                   *)
(***************************************************************************)
C2_Pre ==
    /\ Configured /\ PollReached
    /\ Final \in completion_states
    /\ K <= max_iterations
    /\ NoFaultUpTo(K)

C2_SuccessAtK ==
    C2_Pre =>
       /\ queries <= K
       /\ pc # "aborted"
       /\ PollEnded => (queries = K /\ Outcome = "Success")
       /\ Delivered => CarriedLocation = S3Uri(K)

C2_Witness ==
    /\ C2_Pre /\ K >= 2 /\ pc = "done"
    /\ lab = "lab_01" /\ output_config = S3Uri(K)

(***************************************************************************)
(* C3 (as claimed): when the first failure code is at position k, the      *)
(* poller returns Failure after exactly k queries, never fewer, never      *)
(* more - whatever the iteration budget.                                   *)
(***************************************************************************)
C3_Pre ==
    /\ Configured /\ PollReached
    /\ Final \in error_states
    /\ NoFaultUpTo(K)

C3_FailureAtK_AnyBudget ==
    C3_Pre =>
       /\ queries <= K
       /\ PollEnded => (queries = K /\ Outcome = "Failure")

(***************************************************************************)
(* C3 (amended): when the first failure code is at position                *)
(* k <= max_iterations, the poller returns Failure after exactly k         *)
(* queries: it never stops before the k-th query and never issues a        *)
(* (k+1)-th one.                                                           *)
(***************************************************************************)
C3_FailureAtK ==
    (C3_Pre /\ K <= max_iterations) =>
       /\ queries <= K
       /\ PollEnded => (queries = K /\ Outcome = "Failure")

C3_Witness ==
    /\ C3_Pre /\ K <= max_iterations /\ K >= 2
    /\ lab = "lab_01" /\ PollEnded /\ status = "ServiceError" /\ queries = K

(***************************************************************************)
(* C4 (as claimed): whatever the remote service does, every poll           *)
(* eventually ends (with Success, Failure or Timeout, or with a            *)
(* configuration error raised before the loop).                            *)
(***************************************************************************)
C4_PollTerminates == <>(PollEnded \/ SetupAborted)

(***************************************************************************)
(* C5 (as claimed): in every reachable state the number of status queries  *)
(* issued so far is at most max_iterations.                                *)
(***************************************************************************)
C5_QueriesWithinBudget == queries <= max_iterations

(***************************************************************************)
(* C6 (as claimed): no sleep follows the last query, so once a poll that   *)
(* issued a query has ended the number of sleeps is the number of queries  *)
(* minus one.                                                              *)
(***************************************************************************)
C6_SleepsBetweenQueries ==
    (PollEnded /\ queries >= 1) => sleeps = queries - 1

(***************************************************************************)
(* C7 (as claimed): when query number i fails with a transport error, the  *)
(* poll is over after i queries and i - 1 sleeps, and it ended with a      *)
(* Failure value, not with an exception that left the poller.              *)
(***************************************************************************)
C7_TransportErrorIsFailureValue ==
    (faultAt # 0 /\ queries >= faultAt) =>
       /\ PollEnded
       /\ queries = faultAt
       /\ sleeps = faultAt - 1
       /\ raised # "TransportError"
       /\ Outcome = "Failure"

(***************************************************************************)
(* C8: a status code in neither set (an unknown code or a missing status   *)
(* included) is pending.  The loop is left only on a code of the success   *)
(* or failure set; a poll that ends while the last code was pending ends   *)
(* with Timeout, on the query that exhausts the budget; Success and        *)
(* Failure are never reported for a pending code; and no exception is      *)
(* raised by the poll unless the transport failed or the configuration     *)
(* was rejected.                                                           *)
(***************************************************************************)
C8_UnknownIsPending ==
    /\ (PollEnded /\ raised \notin {"TransportError", "ConfigurationError"}
                  /\ result.status # "TransportError"
                  /\ status \notin (completion_states \cup error_states))
         => (lab = "lab_02" /\ Outcome = "Timeout" /\ queries = max_iterations)
    /\ (Outcome = "Success") => status \in completion_states
    /\ (Outcome = "Failure" /\ result.status # "TransportError") => status \in error_states
    /\ (raised = "TransportError") => (faultAt # 0 /\ queries = faultAt)
    /\ (raised = "ConfigurationError") => ~Configured

\* an unknown or missing code was answered by a further query
C8_Witness ==
    /\ lab = "lab_01" /\ PollEnded /\ raised = "None"
    /\ K = 3 /\ script[1] = "None" /\ script[2] = "Created"
    /\ queries = 3

(***************************************************************************)
(* C9: a poll invoked with max_iterations = 0 or delay <= 0 is rejected    *)
(* with a ConfigurationError before any status query: no query, no sleep.   *)
(***************************************************************************)
C9_Misconfigured == lab = "lab_02" /\ (max_iterations = 0 \/ delay <= 0)

C9_ConfigurationError ==
    C9_Misconfigured =>
       /\ queries = 0 /\ sleeps = 0
       /\ pc \notin {"wfc_query", "wfc_sleep", "wfc_return"} /\ ~Delivered
       /\ (pc = "aborted" /\ ~SetupAborted) => raised = "ConfigurationError"

C9_Witness ==
    /\ C9_Misconfigured /\ max_iterations > 0 /\ delay <= 0
    /\ pc = "aborted" /\ raised = "ConfigurationError" /\ queries = 0

(***************************************************************************)
(* C10 (as claimed): a result document is read only after the poll ended   *)
(* in Success, from the output location that status carried; after Failure *)
(* or Timeout no read is attempted with a missing or undefined location.   *)
(***************************************************************************)
C10_ReadOnlyAfterSuccess ==
    readArgs # <<>> =>
       /\ Outcome = "Success"
       /\ readArgs[1] = CarriedLocation
       /\ readArgs[1] \notin {None, Undefined}

(***************************************************************************)
(* Vocabulary of the properties about the resources of a run.              *)
(***************************************************************************)
\* the positions of the remote calls named n in the log
Calls(n) == {i \in DOMAIN ops : ops[i].op = n}

\* the calls that delete a resource
DeleteOps == {"delete_project", "delete_blueprint", "delete_object", "delete_s3_folder"}

\* the job is submitted and the poll is not over
InPoll == pc \in {"start", "while", "query", "sleep",
                  "wfc_enter", "wfc_query", "wfc_sleep", "wfc_return"}

\* lab_01's loop was left by its test
Lab1LoopLeft ==
    /\ lab = "lab_01"
    /\ \/ pc \in {"output_config", "read_config", "read_result", "delete_project",
                  "delete_object", "delete_folder", "done"}
       \/ (pc = "aborted" /\ raised \in {"ReadError", "AttributeError"})

(***************************************************************************)
(* C11: lab_01's monitoring loop queries get_data_automation_status        *)
(* repeatedly, 5 seconds apart, until the task is complete: once the loop  *)
(* is left at least one query was issued, the status returned by the last  *)
(* query is Success, ServiceError or ClientError, and status_response is   *)
(* the response of that last query; every query but the first comes after  *)
(* a sleep of 5 seconds.                                                   *)
(***************************************************************************)
C11_MonitorUntilComplete ==
    /\ Lab1LoopLeft =>
          /\ queries >= 1
          /\ status \in {"Success", "ServiceError", "ClientError"}
          /\ status = StatusAt(queries)
          /\ status_response = get_data_automation_status(queries)
    /\ (lab = "lab_01" /\ pc = "query") => (sleeps = queries /\ delay = Lab1Delay)

C11_Witness ==
    /\ Lab1LoopLeft /\ pc = "output_config"
    /\ queries = 3 /\ status = "ClientError" /\ status_response.pos = 3

(***************************************************************************)
(* C12: when the remote job reports a terminal failure status, the Failure *)
(* outcome carries exactly the status code the service returned and the    *)
(* service's error message unchanged, and what the caller prints in its    *)
(* failure branch is that same status (and message).                       *)
(***************************************************************************)
C12_RemoteFailure ==
    PollEnded /\ Outcome = "Failure" /\ result.status # "TransportError"

C12_FailureVerbatim ==
    C12_RemoteFailure =>
       /\ status = StatusAt(queries)
       /\ lab = "lab_02" =>
             /\ result.status = StatusAt(queries)
             /\ result.error_message = ErrorMessage(queries)
             /\ pc \notin {"wfc_return", "check"} =>
                   printed = [status |-> StatusAt(queries),
                              error_message |-> ErrorMessage(queries)]
       /\ lab = "lab_01" =>
             /\ status_response.status = StatusAt(queries)
             /\ status_response.error_message = ErrorMessage(queries)
             /\ printed.status = StatusAt(queries)

C12_Witness ==
    /\ C12_RemoteFailure /\ lab = "lab_02" /\ pc = "read_config"
    /\ queries = 2 /\ printed.status = "ServiceError"
    /\ printed.error_message = ErrorMessage(2)

(***************************************************************************)
(* C13: within one poll every status query is made with the same handle,   *)
(* the invocationArn the submission returned, and the handle is never      *)
(* reassigned once it is set.  (The status call blocks: a query has        *)
(* returned before the next statement runs, so no two are in flight.)      *)
(***************************************************************************)
C13_OneHandle ==
    /\ [](/\ handles \subseteq {invocation_arn}
          /\ queries > 0 => handles = {InvocationArn})
    /\ [][invocation_arn # Undefined => invocation_arn' = invocation_arn]_vars

C13_Witness ==
    /\ queries >= 3 /\ handles = {InvocationArn} /\ invocation_arn = InvocationArn

(***************************************************************************)
(* C14 (as claimed): a cancellation signalled while the poller waits is    *)
(* observed at the sleep: the loop is left without another status query    *)
(* and the poll ends with a Timeout (or Cancelled) value, not with an      *)
(* exception.                                                              *)
(***************************************************************************)
C14_CancelIsValue ==
    (cancelAt # 0 /\ sleeps >= cancelAt) =>
       /\ PollEnded
       /\ queries = cancelAt
       /\ raised # "KeyboardInterrupt"
       /\ Outcome \in {"Timeout", "Cancelled"}

(***************************************************************************)
(* C15: polling leaves the remote resources alone: from the submission of  *)
(* the job to the end of the poll loop the log of remote calls other than  *)
(* status queries stays what it was when the job was submitted - the       *)
(* submission is its last entry and nothing is created, modified or        *)
(* deleted.                                                                *)
(***************************************************************************)
C15_PollingFrame ==
    (InPoll \/ pc = "output_config") =>
       /\ Len(ops) = 4
       /\ ops[4].op = "invoke_data_automation_async"
       /\ Calls("invoke_data_automation_async") = {4}
       /\ \A i \in DOMAIN ops : ops[i].op \notin DeleteOps

C15_Witness ==
    /\ lab = "lab_01" /\ pc = "output_config" /\ queries = 3
    /\ Len(ops) = 4 /\ ops[4].op = "invoke_data_automation_async"

(***************************************************************************)
(* C16: in lab_02, when create_blueprint raises, the exception is caught,  *)
(* blueprint_arn is None and the notebook goes on:                         *)
(* create_data_automation_project is still called, with blueprintArn =     *)
(* None; a project creation request carries a real blueprint ARN exactly   *)
(* on the runs where the blueprint was created.                            *)
(***************************************************************************)
C16_BlueprintFailureSwallowed ==
    lab = "lab_02" =>
       /\ (~blueprintOk /\ pc \notin {"upload", "create_blueprint"}) =>
             /\ blueprint_arn = None
             /\ raised # "BlueprintError"
             /\ pc # "create_project" =>
                   \E i \in Calls("create_project") : ops[i].arg = None
       /\ \A i \in Calls("create_project") :
             (ops[i].arg = BlueprintArn) <=> blueprintOk

C16_Witness ==
    /\ lab = "lab_02" /\ ~blueprintOk /\ blueprint_arn = None
    /\ \E i \in Calls("create_project") : ops[i].arg = None

(***************************************************************************)
(* C17: the clean-up runs after the results have been read and deletes     *)
(* every remote resource the run created: the project, the blueprint       *)
(* (lab_02), the uploaded video object and the result folder derived from  *)
(* the output configuration URI; the result folder is deleted only when    *)
(* the job ended in Success, from the URI that status carried.             *)
(***************************************************************************)
C17_CleanUp ==
    /\ \A i \in DOMAIN ops :
          ops[i].op \in DeleteOps => (Len(readArgs) = 2 /\ Outcome = "Success")
    /\ \A i \in Calls("delete_s3_folder") :
          /\ output_config = S3Uri(queries)
          /\ ops[i].arg = <<"folder", queries>>
    /\ pc = "done" =>
          /\ \E i \in Calls("delete_project") : ops[i].arg = ProjectArn
          /\ lab = "lab_02" =>
                \E i \in Calls("delete_blueprint") : ops[i].arg = BlueprintArn
          /\ \E i \in Calls("delete_object") :
                \E j \in Calls("upload_file") : ops[i].arg = ops[j].arg
          /\ \E i \in Calls("delete_s3_folder") : ops[i].arg = <<"folder", K>>

C17_Witness ==
    /\ lab = "lab_02" /\ pc = "done" /\ K = 2
    /\ Calls("delete_s3_folder") # {} /\ Calls("delete_blueprint") # {}

(***************************************************************************)
(* C18: in lab_01, when the head_bucket check fails the error is raised    *)
(* again: no project is created, no video uploaded, no job submitted or    *)
(* polled.  A job is submitted only after the bucket check, the project    *)
(* creation and the upload, in that order.                                 *)
(***************************************************************************)
C18_BucketCheckFirst ==
    lab = "lab_01" =>
       /\ ~bucketExists =>
             /\ Len(ops) <= 1
             /\ queries = 0 /\ invocation_arn = Undefined
             /\ video_project_arn = Undefined
             /\ pc \in {"head_bucket", "aborted"}
             /\ pc = "aborted" => raised = "BucketError"
       /\ \A i \in Calls("invoke_data_automation_async") :
             /\ i = 4
             /\ ops[1].op = "head_bucket" /\ ops[1].ok
             /\ ops[2].op = "create_project"
             /\ ops[3].op = "upload_file"
       /\ queries > 0 => Calls("invoke_data_automation_async") # {}

C18_Witness ==
    /\ lab = "lab_01" /\ ~bucketExists
    /\ pc = "aborted" /\ raised = "BucketError" /\ Len(ops) = 1

====
